---- MODULE Spec2Model ----
(***************************************************************************)
(* Model of SellerMarket/portfolio_manager.py: the PortfolioWatcher tick   *)
(* loop, its sell decision, order splitting, repricing and pending-order   *)
(* reconciliation, together with the broker it talks to.                   *)
(*                                                                         *)
(* Prices are integers in hundredths of a currency unit (5000.0 is 500000) *)
(* so that last_price * sell_discount is exact for a two-decimal discount. *)
(* Times of day are seconds since midnight.                                *)
(***************************************************************************)
EXTENDS Integers, Sequences, FiniteSets, TLC

\* ------------------------------------------------------------------ bounds
MaxShares == 2
MaxSerial == 2
MaxEq == 2
SoldCap == 2

\* ------------------------------------------------- market timing constants
PREMARKET_START == 8 * 3600 + 45 * 60
ORDER_FREEZE_START == 8 * 3600 + 55 * 60
ORDER_FREEZE_END == 9 * 3600 + 2 * 60
TRADING_START == 9 * 3600 + 2 * 60
TRADING_END == 12 * 3600 + 30 * 60

\* MarketPhase (IntEnum)
CLOSED == 0
PREMARKET == 1
ORDER_FREEZE == 2
TRADING == 3
NoPhase == 0 - 1

\* OrderState (IntEnum)
ADDING == 1
ADDED == 2
EXECUTED == 3
CANCELED == 4
ERROR == 5
PARTIAL_EXECUTED == 6
MODIFIED == 7
CANCELING == 8
MODIFYING == 9
SLE_ERROR == 10
DEPRECATED == 11

\* PortfolioConfig defaults; sell_discount 0.99 is kept as a percentage
min_buy_volume == 30000000
sell_discount_pct == 99

\* a variant of get_market_phase whose freeze ends when matching starts, at
\* MARKET_OPEN 09:00:00, two minutes before trading
get_market_phase_until_open(now) ==
    IF PREMARKET_START <= now /\ now < ORDER_FREEZE_START THEN PREMARKET
    ELSE IF ORDER_FREEZE_START <= now /\ now < 9 * 3600 THEN ORDER_FREEZE
    ELSE IF TRADING_START <= now /\ now <= TRADING_END THEN TRADING
    ELSE CLOSED

\* get_market_phase, as a function of the time of day it reads
get_market_phase(now) ==
    IF PREMARKET_START <= now /\ now < ORDER_FREEZE_START THEN PREMARKET
    ELSE IF ORDER_FREEZE_START <= now /\ now < ORDER_FREEZE_END THEN ORDER_FREEZE
    ELSE IF TRADING_START <= now /\ now <= TRADING_END THEN TRADING
    ELSE CLOSED

\* can_modify_orders at time now
can_modify_orders(now) == get_market_phase(now) \in {PREMARKET, TRADING}

\* ------------------------------------------------------------ market data
RECURSIVE SumBuy(_)
SumBuy(bl) == IF bl = << >> THEN 0 ELSE Head(bl).buy_volume + SumBuy(Tail(bl))

RECURSIVE SumSell(_)
SumSell(bl) == IF bl = << >> THEN 0 ELSE Head(bl).sell_volume + SumSell(Tail(bl))

\* insertion of one row into a list sorted by row number (stable)
RECURSIVE InsertByRow(_, _)
InsertByRow(x, s) ==
    IF s = << >> THEN << x >>
    ELSE IF x.row < Head(s).row THEN << x >> \o s
    ELSE << Head(s) >> \o InsertByRow(x, Tail(s))

\* best_limits.sort(key=lambda x: x.row)
RECURSIVE SortByRow(_)
SortByRow(bl) ==
    IF bl = << >> THEN << >>
    ELSE InsertByRow(bl[Len(bl)], SortByRow(SubSeq(bl, 1, Len(bl) - 1)))

\* get_best_limits: the MarketCondition built from the broker's raw answer
\* raw = [cup, maxap, minap, bl], bl a sequence of rows
MarketCondition(raw) ==
    LET best_limits == SortByRow(raw.bl)
        total_buy_volume == SumBuy(raw.bl)
        total_sell_volume == SumSell(raw.bl)
        is_queued ==
            \/ total_sell_volume = 0
            \/ /\ best_limits # << >>
               /\ best_limits[1].sell_price >= raw.maxap
               /\ best_limits[1].sell_volume > 0
    IN  [last_price |-> raw.cup,
         max_price |-> raw.maxap,
         min_price |-> raw.minap,
         best_limits |-> best_limits,
         total_buy_volume |-> total_buy_volume,
         total_sell_volume |-> total_sell_volume,
         is_queued |-> is_queued]

best_buy_price(market) ==
    IF market.best_limits # << >> /\ market.best_limits[1].buy_price > 0
    THEN market.best_limits[1].buy_price
    ELSE 0

best_sell_price(market) ==
    IF market.best_limits # << >> /\ market.best_limits[1].sell_price > 0
    THEN market.best_limits[1].sell_price
    ELSE 0

first_row_buy_volume(market) ==
    IF market.best_limits # << >> THEN market.best_limits[1].buy_volume ELSE 0

\* what reading an attribute of a MarketCondition gives: the value of a
\* dataclass field or of a property, or AttributeError for any other name
AttributeError == [raised |-> TRUE, value |-> FALSE]

getattr(m, name) ==
    IF name \in DOMAIN m THEN [raised |-> FALSE, value |-> m[name]]
    ELSE IF name = "best_buy_price" THEN [raised |-> FALSE, value |-> best_buy_price(m)]
    ELSE IF name = "best_sell_price" THEN [raised |-> FALSE, value |-> best_sell_price(m)]
    ELSE IF name = "first_row_buy_volume"
         THEN [raised |-> FALSE, value |-> first_row_buy_volume(m)]
    ELSE AttributeError

\* ------------------------------------------------------ the sell decision
\* What _determine_sell_action returns: a (price, reason) tuple, the tuple
\* (None, None), or the bare None of falling off the end of the function.
PairResult(p, r) == [ret |-> "pair", price |-> p, reason |-> r]
NoneNone == [ret |-> "none_none", price |-> 0, reason |-> "None"]
BareNone == [ret |-> "bare_none", price |-> 0, reason |-> "None"]

\* last_price * sell_discount
DiscountedPrice(market) == (market.last_price * sell_discount_pct) \div 100

\* a variant of the price range test that lets the price through
PriceNotFloored(price, min_price) == price

\* if price < market.min_price: price = market.min_price
PriceFlooredAtMin(price, min_price) == IF price < min_price THEN min_price ELSE price

\* a variant of the demand test that sells into every queue
queue_demand_always_low(market, min_buy) == TRUE

\* market.first_row_buy_volume < self.config.min_buy_volume
queue_demand_low(market, min_buy) == first_row_buy_volume(market) < min_buy

determine_sell_action(market, phase, min_buy) ==
    IF market.is_queued
    THEN IF queue_demand_low(market, min_buy)
         THEN IF best_buy_price(market) > 0
              THEN PairResult(best_buy_price(market), "queue_demand_low")
              ELSE BareNone
         ELSE NoneNone
    ELSE LET p0 == DiscountedPrice(market)
             price == PriceFlooredAtMin(p0, market.min_price)
         IN  IF phase = PREMARKET
             THEN PairResult(price, "premarket_normal")
             ELSE PairResult(price, "normal_market_sell")

\* ------------------------------------------------------- order execution
\* a variant of the order count that rounds down
OrdersNeededRoundedDown(quantity, max_volume) == quantity \div max_volume

\* orders_needed = (quantity + max_volume - 1) // max_volume
OrdersNeeded(quantity, max_volume) == (quantity + max_volume - 1) \div max_volume

\* order_volume = min(remaining, max_volume)
OrderVolume(rem, max_volume) == IF rem < max_volume THEN rem ELSE max_volume

\* SellOrder(isin, price, volume, serial_number, state=ADDING); __post_init__
\* sets remaining_volume = volume - executed_volume
SellOrder(price, volume, serial_number) ==
    [serial_number |-> serial_number, price |-> price, volume |-> volume,
     state |-> ADDING, executed_volume |-> 0, remaining_volume |-> volume - 0]

\* a variant of the ledger that tracks an order whatever the call returned
LedgerAfterPlaceAlways(orders, ok, order) == Append(orders, order)

\* the ledger after one place_sell_order call: appended when the call returned
\* a result, left alone when it returned None
LedgerAfterPlace(orders, ok, order) == IF ok THEN Append(orders, order) ELSE orders

\* _get_pending_volume
RECURSIVE get_pending_volume(_)
get_pending_volume(orders) ==
    IF orders = << >> THEN 0
    ELSE Head(orders).remaining_volume + get_pending_volume(Tail(orders))

\* ------------------------------------------------------- reconciliation
NoSerial == 0
NoStatus == [found |-> FALSE, orderState |-> 0, executedVolume |-> 0]

\* get_order_status: the entry of the open orders with this serial number, or
\* None when there is none or when get_open_orders raised (serial in failed)
get_order_status(orders_at_broker, serial, failed) ==
    IF serial \in failed \/ serial \notin 1..Len(orders_at_broker) THEN NoStatus
    ELSE IF ~orders_at_broker[serial].open THEN NoStatus
    ELSE [found |-> TRUE,
          orderState |-> orders_at_broker[serial].orderState,
          executedVolume |-> orders_at_broker[serial].executedVolume]

\* the order with the broker's status copied into it (lines 847-849)
WithStatus(order, status) ==
    [order EXCEPT !.state = status.orderState,
                  !.executed_volume = status.executedVolume,
                  !.remaining_volume = order.volume - status.executedVolume]

\* a variant of the loop that takes the volume still open of a partly
\* executed order off the total
CreditWithRefund(order, status) ==
    IF order.serial_number = NoSerial THEN 0
    ELSE IF ~status.found THEN order.volume
    ELSE IF status.orderState = EXECUTED THEN order.volume
    ELSE IF status.orderState = PARTIAL_EXECUTED
         THEN 0 - (order.volume - status.executedVolume)
    ELSE 0

\* a variant of the loop that credits nothing for an order that is not reported
CreditOnlyReported(order, status) ==
    IF order.serial_number = NoSerial \/ ~status.found THEN 0
    ELSE IF status.orderState = EXECUTED THEN order.volume
    ELSE IF status.orderState = PARTIAL_EXECUTED THEN status.executedVolume
    ELSE 0

\* what one iteration of the loop of _update_pending_orders adds to _total_sold
Credit(order, status) ==
    IF order.serial_number = NoSerial THEN 0
    ELSE IF ~status.found THEN order.volume
    ELSE IF status.orderState = EXECUTED THEN order.volume
    ELSE IF status.orderState = PARTIAL_EXECUTED THEN status.executedVolume
    ELSE 0

\* a variant of the loop that keeps every order the broker reports
KeptWhenReported(order, status) ==
    order.serial_number # NoSerial /\ status.found

\* whether one iteration appends the order to updated_orders
Kept(order, status) ==
    /\ order.serial_number # NoSerial
    /\ status.found
    /\ status.orderState \in {PARTIAL_EXECUTED, ADDED, ADDING, MODIFYING}

\* _update_pending_orders: [pending, sold, errors] after the loop
RECURSIVE update_pending_orders(_, _, _, _)
update_pending_orders(orders, orders_at_broker, failed, acc) ==
    IF orders = << >> THEN acc
    ELSE LET order == Head(orders)
             status == get_order_status(orders_at_broker, order.serial_number, failed)
             next_acc ==
                 [pending |-> IF Kept(order, status)
                              THEN Append(acc.pending, WithStatus(order, status))
                              ELSE acc.pending,
                  sold |-> acc.sold + Credit(order, status),
                  errors |-> acc.errors \/
                             (order.serial_number # NoSerial /\ status.found
                              /\ status.orderState = ERROR)]
         IN  update_pending_orders(Tail(orders), orders_at_broker, failed, next_acc)

\* ------------------------------------------------------------- repricing
\* the orders _handle_order_repricing decides to cancel (lines 709-718)
NeedsCancel(order, market) ==
    /\ order.state \in {ADDED, ADDING}
    /\ order.price > DiscountedPrice(market) + 100

RECURSIVE SelectSeq2(_, _)
SelectSeq2(orders, market) ==
    IF orders = << >> THEN << >>
    ELSE IF NeedsCancel(Head(orders), market)
         THEN << Head(orders) >> \o SelectSeq2(Tail(orders), market)
         ELSE SelectSeq2(Tail(orders), market)

orders_to_cancel(orders, market) == SelectSeq2(orders, market)

\* the serial numbers of a list of orders
SerialsOf(orders) == {orders[k].serial_number : k \in 1..Len(orders)}

\* a variant of the cancel loop that never removes an order from the ledger
WithoutSerialsKeepsAll(orders, gone) == orders

\* the ledger after the cancel loop: the orders whose cancel succeeded removed
RECURSIVE WithoutSerials(_, _)
WithoutSerials(orders, gone) ==
    IF orders = << >> THEN << >>
    ELSE IF Head(orders).serial_number \in gone
         THEN WithoutSerials(Tail(orders), gone)
         ELSE << Head(orders) >> \o WithoutSerials(Tail(orders), gone)

\* ------------------------------------------------------------ the state
VARIABLES
    running,            \* PortfolioWatcher._running
    pending_orders,     \* PortfolioWatcher._pending_orders
    total_sold,         \* PortfolioWatcher._total_sold
    target_quantity,    \* PortfolioWatcher._target_quantity
    last_market_phase,  \* PortfolioWatcher._last_market_phase
    freeze_notified,    \* PortfolioWatcher._freeze_notified
    pc,                 \* where the _watch_loop thread stands
    phase,              \* _check_and_act: phase
    position_quantity,  \* _check_and_act: position.quantity (0: no position)
    market,             \* _check_and_act: market
    sell,               \* _check_and_act: (sell_price, sell_reason)
    quantity,           \* _execute_sell: quantity
    remaining,          \* _execute_sell: remaining
    orders_needed,      \* _execute_sell: orders_needed
    max_volume,         \* _execute_sell: max_volume
    idx,                \* _execute_sell: i
    place_calls,        \* the place_sell_order calls of the current tick
    cancel_calls,       \* the cancel_order calls of the current tick
    notes,              \* the notifications sent in the current tick
    now,                \* the wall clock (seconds of the day)
    held,               \* the quantity of the instrument held at the broker
    broker_orders,      \* the broker's order book entry of every serial number
    interleaved,        \* whether the rest of the world also moves during a tick
    config_fault,       \* what is wrong with PortfolioWatcher.config, if anything
    config_file,        \* PortfolioManager: the key of every section of the file
    watchers,           \* PortfolioManager.watchers: key -> watcher object
    objects,            \* every PortfolioWatcher object the manager has created
    manager_log,        \* PortfolioManager: the last call and how it ended
    sched_now,          \* JobScheduler: the wall clock (seconds since midnight of day 0)
    sched_pc,           \* JobScheduler.run: where the scheduler thread stands
    jobs,               \* JobScheduler.run: config['jobs']
    job_idx,            \* JobScheduler.run: the position of the for loop in jobs
    should_run,         \* JobScheduler.run: the last should_run_job call and its result
    executed_today,     \* JobScheduler.executed_today (its keys)
    spawned,            \* when execute_job last spawned the command of each job
    result,             \* JobScheduler.execute_job: how the last command ended
    loop_threads,       \* where every _watch_loop thread of one watcher stands
    auth_now,           \* EphoenixAPIClient: the wall clock (seconds)
    cache_file,         \* TradingCache: the token file of the account
    token,              \* EphoenixAPIClient.token
    token_expiry,       \* EphoenixAPIClient.token_expiry
    issued,             \* the expiry recorded for every token when it was saved
    returned            \* EphoenixAPIClient.authenticate: the last return

watcher_vars == << running, pending_orders, total_sold, target_quantity,
                   last_market_phase, freeze_notified >>
tick_vars == << phase, position_quantity, market, sell, quantity, remaining,
                orders_needed, max_volume, idx, place_calls, cancel_calls, notes >>
broker_vars == << held, broker_orders >>
manager_vars == << config_file, watchers, objects, manager_log >>
scheduler_vars == << sched_now, sched_pc, jobs, job_idx, should_run, executed_today, spawned,
                    result >>
client_vars == << auth_now, cache_file, token, token_expiry, issued, returned >>
service_vars == << scheduler_vars, loop_threads, client_vars >>
vars == << watcher_vars, tick_vars, broker_vars, pc, now, interleaved, config_fault, manager_vars,
           service_vars >>

\* ---------------------------------------------------------- JobScheduler
\* no should_run_job call yet
NoCheck == [name |-> 0, at |-> 0, result |-> FALSE]

\* a scheduler that has not been constructed over any configuration
SchedulerIdle ==
    /\ sched_now = 0
    /\ sched_pc = "none"
    /\ jobs = << >>
    /\ job_idx = 0
    /\ should_run = NoCheck
    /\ executed_today = {}
    /\ spawned = << >>
    /\ result = "none"

\* self.token = None, self.token_expiry = None; no token file
NoToken == 0
NoExpiry == 0 - 1
NoFile == [token |-> NoToken]
NoReturn == [token |-> NoToken, at |-> 0, from |-> "none"]

\* an API client that has not been constructed
ClientIdle ==
    /\ auth_now = 0
    /\ cache_file = NoFile
    /\ token = NoToken
    /\ token_expiry = NoExpiry
    /\ issued = << >>
    /\ returned = NoReturn

\* the scheduler and the API client are not in use and the threads of the
\* watcher are not followed
ServicesIdle == SchedulerIdle /\ loop_threads = << >> /\ ClientIdle

\* ------------------------------------------------------ PortfolioManager
MaxSections == 2
MaxKeys == 2
MaxWatchers == 3

\* the key username@broker:isin of a section whose broker code is not valid
InvalidBrokerKey == 0

\* what a configuration can be: correct, or with a broker code that is not a
\* BrokerCode, an ISIN the account does not hold, or an account that cannot log in
ConfigFaults == {"none", "broker", "instrument", "account"}

\* self.watchers = {}
NoWatchers == [k \in {} |-> 0]

NoCall == [op |-> "none", outcome |-> "none"]

\* a manager that has not been constructed over any file
ManagerIdle ==
    /\ config_file = << >>
    /\ watchers = NoWatchers
    /\ objects = << >>
    /\ manager_log = NoCall

\* PortfolioWatcher.__init__: _running False, no thread
NewWatcher(key) == [key |-> key, running |-> FALSE, threads |-> 0]

\* PortfolioWatcher.start: returns early when running, else starts a thread
WatcherStarted(w) ==
    IF w.running THEN w ELSE [w EXCEPT !.running = TRUE, !.threads = @ + 1]

\* PortfolioWatcher.stop
WatcherStopped(w) == [w EXCEPT !.running = FALSE]

\* self.watchers[key] = watcher
WithWatcher(ws, key, id) ==
    [k \in DOMAIN ws \cup {key} |-> IF k = key THEN id ELSE ws[k]]

\* del self.watchers[key]
WithoutWatcher(ws, key) == [k \in DOMAIN ws \ {key} |-> ws[k]]

\* the objects self.watchers holds
HeldObjects(ws) == { ws[k] : k \in DOMAIN ws }

\* watcher = PortfolioWatcher(cfg, ...); self.watchers[key] = watcher;
\* watcher.start() -- the constructor raises on a broker code that is not valid
CreateAndStart(st, key) ==
    IF key = InvalidBrokerKey
    THEN [st EXCEPT !.raised = TRUE]
    ELSE [watchers |-> WithWatcher(st.watchers, key, Len(st.objects) + 1),
          objects |-> Append(st.objects, WatcherStarted(NewWatcher(key))),
          raised |-> FALSE]

\* the loop of start_all from section i on
RECURSIVE start_all_from(_, _, _)
start_all_from(st, cfg, i) ==
    IF i > Len(cfg) \/ st.raised THEN st
    ELSE IF cfg[i] \in DOMAIN st.watchers
         THEN start_all_from(st, cfg, i + 1)
         ELSE start_all_from(CreateAndStart(st, cfg[i]), cfg, i + 1)

\* a variant of start_one that never finds the watcher running
NeverAlreadyRunning(ws, objs, key) == FALSE

\* start_one: key in self.watchers and self.watchers[key].is_running
AlreadyRunning(ws, objs, key) == key \in DOMAIN ws /\ objs[ws[key]].running

\* the instants the clock of the model visits: one in each phase of the day
TimePoints == {PREMARKET_START, ORDER_FREEZE_START, TRADING_START, TRADING_END + 1}

Row(r, bv, bp, sv, sp) ==
    [row |-> r, buy_volume |-> bv, buy_price |-> bp,
     sell_volume |-> sv, sell_price |-> sp]

Raw(cup, maxap, minap, bl) == [cup |-> cup, maxap |-> maxap, minap |-> minap, bl |-> bl]

\* the order books the broker answers with in the watcher's ticks
TickBooks ==
    { Raw(550000, 550000, 450000, << Row(1, 30000000, 549000, 1000, 550000) >>),
      Raw(500000, 550000, 450000, << Row(1, 20000000, 495000, 0, 0) >>),
      Raw(500000, 550000, 450000, << Row(1, 1000000, 499000, 500000, 501000) >>),
      Raw(452000, 550000, 450000, << Row(1, 1000000, 451000, 500000, 452000) >>),
      Raw(500000, 550000, 450000, << >>) }

NoMarket == MarketCondition(Raw(0, 0, 0, << >>))

TickLocalsInit ==
    /\ phase = NoPhase
    /\ position_quantity = 0
    /\ market = NoMarket
    /\ sell = NoneNone
    /\ quantity = 0
    /\ remaining = 0
    /\ orders_needed = 0
    /\ max_volume = 0
    /\ idx = 0
    /\ place_calls = << >>
    /\ cancel_calls = << >>
    /\ notes = {}

\* PortfolioWatcher.__init__, with the broker holding the shares or nothing.
\* The constructor raises ValueError on a broker code that is not valid (no
\* watcher exists then); it looks at nothing else of the configuration. An
\* account that cannot log in or does not hold the ISIN holds no shares of it.
Constructed ==
    /\ running = FALSE
    /\ pending_orders = << >>
    /\ total_sold = 0
    /\ target_quantity = 0
    /\ last_market_phase = NoPhase
    /\ freeze_notified = FALSE
    /\ config_fault \in ConfigFaults
    /\ pc = IF config_fault = "broker" THEN "raised" ELSE "idle"
    /\ TickLocalsInit
    /\ now \in TimePoints
    /\ held \in IF config_fault = "none" THEN {0, MaxShares} ELSE {0}
    /\ broker_orders = << >>
    /\ ManagerIdle
    /\ ServicesIdle

\* Every broker call of a tick is answered from one state of the broker: the
\* broker, the clock and stop() move between the ticks.
Init == Constructed /\ interleaved = FALSE

\* The environment (broker, clock, stop()) moves while the loop thread is
\* between two ticks, and inside a tick only in an interleaved behaviour.
\* Nothing of a tick is live during the sleep that follows it, before start()
\* or after the thread has ended, so a step of the environment there equals
\* the same step taken at the loop test and is not scheduled separately.
EnvironmentMayStep ==
    \/ pc = "loop"
    \/ interleaved /\ pc \notin {"idle", "sleep", "exited"}

\* ------------------------------------------------------ start and stop
\* PortfolioWatcher.start
Start ==
    /\ pc = "idle"
    /\ ~running
    /\ running' = TRUE
    /\ freeze_notified' = FALSE
    /\ pc' = "loop"
    /\ UNCHANGED << pending_orders, total_sold, target_quantity, last_market_phase,
                    tick_vars, now, broker_vars, interleaved, config_fault, manager_vars, service_vars >>

\* a variant of stop() that ends the loop thread where it stands
StopKillsThread ==
    /\ EnvironmentMayStep
    /\ running
    /\ running' = FALSE
    /\ pc' = "exited"
    /\ UNCHANGED << pending_orders, total_sold, target_quantity, last_market_phase,
                    freeze_notified, tick_vars, broker_vars, now, interleaved, config_fault, manager_vars, service_vars >>

\* PortfolioWatcher.stop
Stop ==
    /\ EnvironmentMayStep
    /\ running
    /\ running' = FALSE
    /\ UNCHANGED << pending_orders, total_sold, target_quantity, last_market_phase,
                    freeze_notified, tick_vars, broker_vars, pc, now, interleaved, config_fault, manager_vars, service_vars >>

\* _watch_loop: the while test finds _running false and the thread ends
LoopExit ==
    /\ pc = "loop"
    /\ ~running
    /\ pc' = "exited"
    /\ UNCHANGED << watcher_vars, tick_vars, broker_vars, now, interleaved, config_fault, manager_vars, service_vars >>

\* -------------------------------------------------------------- the tick
\* a variant of the loop in which an exception of the tick ends the thread
TickRaisesEndsThread ==
    /\ pc' = "exited"
    /\ notes' = notes \cup {"error"}

\* the except branch of _watch_loop: error notification, then the sleep
TickRaises ==
    /\ pc' = "sleep"
    /\ notes' = notes \cup {"error"}

\* a variant of the tick that goes on when the market is closed
ClosedNeverReturns(ph) == FALSE

\* whether the tick returns before the position query (line 627)
ClosedReturn(ph) == ph = CLOSED

\* _check_and_act up to the position query: phase sampling, the phase-change
\* notification and the return of a closed market
TickBegin ==
    /\ pc = "loop"
    /\ running
    /\ total_sold <= SoldCap
    /\ phase' = get_market_phase(now)
    /\ IF last_market_phase # phase'
       THEN /\ last_market_phase' = phase'
            /\ freeze_notified' = FALSE
            /\ notes' = IF phase' # CLOSED THEN {"phase_changed"} ELSE {}
       ELSE /\ UNCHANGED << last_market_phase, freeze_notified >>
            /\ notes' = {}
    /\ pc' = IF ClosedReturn(phase') THEN "sleep" ELSE "positions"
    /\ UNCHANGED << running, pending_orders, total_sold, target_quantity,
                    position_quantity, market, sell, quantity, remaining, orders_needed, max_volume, idx,
                    place_calls, cancel_calls, broker_vars, now, interleaved, config_fault, manager_vars, service_vars >>

\* time.sleep(check_interval): the tick is over and its locals are gone
Sleep ==
    /\ pc = "sleep"
    /\ pc' = "loop"
    /\ phase' = NoPhase
    /\ position_quantity' = 0
    /\ market' = NoMarket
    /\ sell' = NoneNone
    /\ quantity' = 0
    /\ remaining' = 0
    /\ orders_needed' = 0
    /\ max_volume' = 0
    /\ idx' = 0
    /\ place_calls' = << >>
    /\ cancel_calls' = << >>
    /\ notes' = {}
    /\ UNCHANGED << watcher_vars, broker_vars, now, interleaved, config_fault, manager_vars, service_vars >>

\* get_portfolio_positions raises
PositionsFail ==
    /\ pc = "positions"
    /\ TickRaises
    /\ UNCHANGED << watcher_vars, phase, position_quantity, market, sell, quantity, remaining,
                    orders_needed, max_volume, idx, place_calls, cancel_calls, broker_vars, now, interleaved, config_fault, manager_vars, service_vars >>

\* a variant of the completion test that does not ask for a target
AllSoldWithoutTarget(target, sold) == sold >= target

\* whether the tick finds the liquidation complete (line 639)
AllSold(target, sold) == target > 0 /\ sold >= target

\* get_portfolio_positions answers (it never does for an account that cannot
\* log in: authenticate raises); the completion test and the target
GetPositions ==
    /\ pc = "positions"
    /\ config_fault # "account"
    /\ position_quantity' = held
    /\ IF held <= 0
       THEN /\ pc' = "sleep"
            /\ IF AllSold(target_quantity, total_sold)
               THEN /\ running' = FALSE
                    /\ notes' = notes \cup {"all_sold"}
               ELSE UNCHANGED << running, notes >>
            /\ UNCHANGED target_quantity
       ELSE /\ pc' = "market"
            /\ IF target_quantity = 0
               THEN /\ target_quantity' = held
                    /\ notes' = notes \cup {"tracking"}
               ELSE UNCHANGED << target_quantity, notes >>
            /\ UNCHANGED running
    /\ UNCHANGED << pending_orders, total_sold, last_market_phase, freeze_notified,
                    phase, market, sell, quantity, remaining, orders_needed, max_volume, idx,
                    place_calls, cancel_calls, broker_vars, now, interleaved, config_fault, manager_vars, service_vars >>

\* get_best_limits raises
BestLimitsFail ==
    /\ pc = "market"
    /\ TickRaises
    /\ UNCHANGED << watcher_vars, phase, position_quantity, market, sell, quantity, remaining,
                    orders_needed, max_volume, idx, place_calls, cancel_calls, broker_vars, now, interleaved, config_fault, manager_vars, service_vars >>

\* get_best_limits answers
GetBestLimits ==
    /\ pc = "market"
    /\ \E raw \in TickBooks : market' = MarketCondition(raw)
    /\ pc' = "update"
    /\ UNCHANGED << watcher_vars, phase, position_quantity, sell, quantity, remaining,
                    orders_needed, max_volume, idx, place_calls, cancel_calls, notes,
                    broker_vars, now, interleaved, config_fault, manager_vars, service_vars >>

\* a variant of the tick without the order-freeze return
FreezeNeverReturns(ph) == FALSE

\* whether the tick stops after the reconciliation (line 663)
FreezeReturn(ph) == ph = ORDER_FREEZE

\* _update_pending_orders, then the order-freeze return
UpdatePendingOrders ==
    /\ pc = "update"
    /\ \E failed \in SUBSET SerialsOf(pending_orders) :
         LET r == update_pending_orders(pending_orders, broker_orders, failed,
                    [pending |-> << >>, sold |-> total_sold, errors |-> FALSE])
             n1 == IF r.errors THEN notes \cup {"order_error"} ELSE notes
         IN  /\ pending_orders' = r.pending
             /\ total_sold' = r.sold
             /\ IF FreezeReturn(phase)
                THEN /\ pc' = "sleep"
                     /\ freeze_notified' = TRUE
                     /\ notes' = IF freeze_notified THEN n1 ELSE n1 \cup {"freeze"}
                ELSE /\ pc' = "reprice"
                     /\ notes' = n1
                     /\ UNCHANGED freeze_notified
    /\ UNCHANGED << running, target_quantity, last_market_phase, phase,
                    position_quantity, market, sell, quantity, remaining, orders_needed, max_volume, idx,
                    place_calls, cancel_calls, broker_vars, now, interleaved, config_fault, manager_vars, service_vars >>

\* the cancel_order calls of the cancel loop, in order, with their outcomes
RECURSIVE CancelLog(_, _)
CancelLog(orders, succeeded) ==
    IF orders = << >> THEN << >>
    ELSE << [serial |-> Head(orders).serial_number,
             ok |-> Head(orders).serial_number \in succeeded] >>
         \o CancelLog(Tail(orders), succeeded)

\* an order that has left the broker's open orders: it is not reported again
Closed(entry) == [entry EXCEPT !.open = FALSE]

\* the broker's book after the cancellations it accepted
CancelAtBroker(orders_at_broker, succeeded) ==
    [s \in 1..Len(orders_at_broker) |->
        IF s \in succeeded
        THEN Closed([orders_at_broker[s] EXCEPT !.orderState = CANCELED])
        ELSE orders_at_broker[s]]

\* a variant of the repricing without its early returns
RepricingAlwaysApplies(orders, clock, mkt) == TRUE

\* whether _handle_order_repricing goes on to look at the orders (lines 701-706)
RepricingApplies(orders, clock, mkt) ==
    /\ orders # << >>
    /\ can_modify_orders(clock)
    /\ ~mkt.is_queued

\* _handle_order_repricing
HandleOrderRepricing ==
    /\ pc = "reprice"
    /\ IF RepricingApplies(pending_orders, now, market)
       THEN LET cands == orders_to_cancel(pending_orders, market)
            IN  \E succeeded \in SUBSET (SerialsOf(cands) \ {NoSerial}) :
                  /\ pending_orders' = WithoutSerials(pending_orders, succeeded)
                  /\ cancel_calls' = CancelLog(
                         SelectSeq(cands, LAMBDA o : o.serial_number # NoSerial),
                         succeeded)
                  /\ broker_orders' = CancelAtBroker(broker_orders, succeeded)
                  /\ notes' = IF succeeded # {} THEN notes \cup {"repricing"} ELSE notes
       ELSE UNCHANGED << pending_orders, cancel_calls, broker_orders, notes >>
    /\ pc' = "decide"
    /\ UNCHANGED << running, total_sold, target_quantity, last_market_phase,
                    freeze_notified, phase, position_quantity, market, sell,
                    quantity, remaining, orders_needed, max_volume, idx, place_calls, held, now, interleaved, config_fault, manager_vars, service_vars >>

\* _determine_sell_action, the unpacking of its result, the remaining quantity
\* and the head of _execute_sell (get_instrument_info, orders_needed)
DetermineSellAction ==
    /\ pc = "decide"
    /\ LET action == determine_sell_action(market, phase, min_buy_volume)
           rest == position_quantity - get_pending_volume(pending_orders)
       IN  /\ sell' = action
           /\ \/ /\ action.ret = "bare_none"
                 /\ TickRaises
                 /\ UNCHANGED << quantity, remaining, orders_needed, max_volume >>
              \/ /\ action.ret = "none_none" \/ (action.ret = "pair" /\ rest <= 0)
                 /\ pc' = "sleep"
                 /\ UNCHANGED << quantity, remaining, orders_needed, max_volume, notes >>
              \/ /\ action.ret = "pair" /\ rest > 0
                 /\ quantity' = rest
                 /\ \/ /\ TickRaises
                       /\ UNCHANGED << remaining, orders_needed, max_volume >>
                    \/ /\ \E maxeq \in 1..MaxEq :
                            /\ max_volume' = maxeq
                            /\ orders_needed' = OrdersNeeded(rest, maxeq)
                       /\ remaining' = rest
                       /\ notes' = notes \cup {"selling"}
                       /\ pc' = "place"
    /\ UNCHANGED << watcher_vars, phase, position_quantity, market, idx,
                    place_calls, cancel_calls, broker_vars, now, interleaved, config_fault, manager_vars, service_vars >>

\* one iteration of the loop of _execute_sell: one place_sell_order call
PlaceSellOrder ==
    /\ pc = "place"
    /\ idx < orders_needed
    /\ LET order_volume == OrderVolume(remaining, max_volume)
           serial == Len(broker_orders) + 1
       IN  \E ok \in BOOLEAN :
             /\ ok => Len(broker_orders) < MaxSerial
             /\ pending_orders' =
                    LedgerAfterPlace(pending_orders, ok,
                                     SellOrder(sell.price, order_volume, serial))
             /\ broker_orders' =
                    IF ok
                    THEN Append(broker_orders,
                                [volume |-> order_volume, executedVolume |-> 0,
                                 orderState |-> ADDED, open |-> TRUE])
                    ELSE broker_orders
             /\ place_calls' = Append(place_calls,
                    [price |-> sell.price, volume |-> order_volume, ok |-> ok,
                     serial |-> IF ok THEN serial ELSE NoSerial])
             /\ notes' = IF ok THEN notes ELSE notes \cup {"failed"}
             /\ remaining' = remaining - order_volume
    /\ idx' = idx + 1
    /\ pc' = IF idx + 1 < orders_needed THEN "place" ELSE "sleep"
    /\ UNCHANGED << running, total_sold, target_quantity, last_market_phase,
                    freeze_notified, phase, position_quantity, market, sell,
                    quantity, orders_needed, max_volume, cancel_calls, held, now, interleaved, config_fault, manager_vars, service_vars >>

\* ------------------------------------------------------------ the broker
\* the exchange executes k shares of an open order; it matches orders from
\* the opening at 09:00, inside the order freeze, to the end of trading
BrokerFill ==
    \E s \in 1..Len(broker_orders) :
      /\ EnvironmentMayStep
      /\ broker_orders[s].open
      /\ broker_orders[s].orderState \in {ADDED, PARTIAL_EXECUTED}
      /\ get_market_phase(now) \in {ORDER_FREEZE, TRADING}
      /\ \E k \in 1..(broker_orders[s].volume - broker_orders[s].executedVolume) :
           /\ k <= held
           /\ held' = held - k
           /\ LET done == broker_orders[s].executedVolume + k = broker_orders[s].volume
              IN  broker_orders' = [broker_orders EXCEPT ![s] =
                    [volume |-> @.volume,
                     executedVolume |-> @.executedVolume + k,
                     orderState |-> IF done THEN EXECUTED ELSE PARTIAL_EXECUTED,
                     open |-> TRUE]]
      /\ UNCHANGED << watcher_vars, tick_vars, pc, now, interleaved, config_fault, manager_vars, service_vars >>

\* a finished order leaves the broker's list of open orders
BrokerDelist ==
    \E s \in 1..Len(broker_orders) :
      /\ EnvironmentMayStep
      /\ broker_orders[s].open
      /\ broker_orders[s].orderState \in {EXECUTED, CANCELED, ERROR}
      /\ broker_orders' = [broker_orders EXCEPT ![s] = Closed(@)]
      /\ UNCHANGED << watcher_vars, tick_vars, held, pc, now, interleaved, config_fault, manager_vars, service_vars >>

\* time passes
AdvanceClock ==
    /\ EnvironmentMayStep
    /\ \E t \in TimePoints : t > now /\ now' = t
    /\ UNCHANGED << watcher_vars, tick_vars, broker_vars, pc, interleaved, config_fault, manager_vars, service_vars >>

\* shares of the instrument are added to the account from outside the
\* watcher (a purchase or a transfer): the next position query reports more
BrokerTopUp ==
    /\ EnvironmentMayStep
    /\ held < MaxShares
    /\ held' = held + 1
    /\ UNCHANGED << watcher_vars, tick_vars, broker_orders, pc, now, interleaved, config_fault, manager_vars, service_vars >>

\* a watcher that is started and left to run until it stops by itself
Next ==
    \/ Start
    \/ LoopExit
    \/ TickBegin
    \/ Sleep
    \/ PositionsFail
    \/ GetPositions
    \/ BestLimitsFail
    \/ GetBestLimits
    \/ UpdatePendingOrders
    \/ HandleOrderRepricing
    \/ DetermineSellAction
    \/ PlaceSellOrder
    \/ BrokerFill
    \/ BrokerDelist
    \/ AdvanceClock

Spec == Init /\ [][Next]_vars

\* the same watcher with a caller that may stop it
StopSpec == Init /\ [][Next \/ Stop]_vars

\* the same watcher over an account that also receives shares from outside
TopUpSpec == Init /\ [][Next \/ BrokerTopUp]_vars

\* the same watcher with the broker and the clock moving during its ticks
RaceInit == Constructed /\ interleaved = TRUE

RaceSpec == RaceInit /\ [][Next]_vars

\* ------------------------------------------------- the loop thread, fair
\* The loop thread is a daemon thread that the scheduler keeps running: each
\* of its steps is taken once it is enabled (a position query that cannot
\* answer raises), and a broker query that is asked again and again does not
\* fail every time.
FairSpec ==
    /\ Spec
    /\ WF_vars(LoopExit)
    /\ WF_vars(TickBegin)
    /\ WF_vars(Sleep)
    /\ WF_vars(PositionsFail)
    /\ SF_vars(GetPositions)
    /\ SF_vars(GetBestLimits)
    /\ WF_vars(UpdatePendingOrders)
    /\ WF_vars(HandleOrderRepricing)
    /\ WF_vars(DetermineSellAction)
    /\ WF_vars(PlaceSellOrder)

\* ------------------------------------ get_market_phase through one day
\* the last second of a day, 23:59:59
EndOfDay == 24 * 3600 - 1

\* midnight: get_market_phase is called for the first time
ClockInit ==
    /\ running = FALSE
    /\ pending_orders = << >>
    /\ total_sold = 0
    /\ target_quantity = 0
    /\ freeze_notified = FALSE
    /\ pc = "idle"
    /\ now = 0
    /\ phase = get_market_phase(now)
    /\ last_market_phase = NoPhase
    /\ position_quantity = 0
    /\ market = NoMarket
    /\ sell = NoneNone
    /\ quantity = 0
    /\ remaining = 0
    /\ orders_needed = 0
    /\ max_volume = 0
    /\ idx = 0
    /\ place_calls = << >>
    /\ cancel_calls = << >>
    /\ notes = {}
    /\ held = 0
    /\ broker_orders = << >>
    /\ interleaved = FALSE
    /\ config_fault = "none"
    /\ ManagerIdle
    /\ ServicesIdle

\* a second passes and get_market_phase is called again; last_market_phase
\* keeps the value of the call before
ClockTick ==
    /\ now < EndOfDay
    /\ now' = now + 1
    /\ phase' = get_market_phase(now')
    /\ last_market_phase' = phase
    /\ UNCHANGED << running, pending_orders, total_sold, target_quantity,
                    freeze_notified, position_quantity, market, sell, quantity,
                    remaining, orders_needed, max_volume, idx, place_calls,
                    cancel_calls, notes, broker_vars, pc, interleaved,
                    config_fault, manager_vars, service_vars >>

ClockSpec == ClockInit /\ [][ClockTick]_vars

\* -------------------------------------- _update_pending_orders, called alone
\* an order as the broker has it: among the open orders in any OrderState, or
\* gone from them after it was executed or cancelled
ReconcileEntries ==
    LET entry(st) == [volume |-> MaxShares,
                      executedVolume |-> IF st = EXECUTED THEN MaxShares
                                         ELSE IF st = PARTIAL_EXECUTED THEN 1 ELSE 0,
                      orderState |-> st, open |-> TRUE]
    IN  { entry(st) : st \in ADDING..DEPRECATED }
        \cup { Closed(entry(st)) : st \in {EXECUTED, CANCELED} }

\* the watcher just before _update_pending_orders, in a tick of the order
\* freeze or of trading, for every ledger of up to MaxSerial orders as
\* _execute_sell left them and every state of these orders at the broker
ReconcileInit ==
    /\ running = TRUE
    /\ total_sold = 0
    /\ target_quantity = MaxShares
    /\ freeze_notified = FALSE
    /\ pc = "update"
    /\ phase \in {ORDER_FREEZE, TRADING}
    /\ now = IF phase = ORDER_FREEZE THEN ORDER_FREEZE_START ELSE TRADING_START
    /\ last_market_phase = phase
    /\ position_quantity = MaxShares
    /\ held = MaxShares
    /\ market = MarketCondition(Raw(500000, 550000, 450000,
                                    << Row(1, 1000000, 499000, 500000, 501000) >>))
    /\ \E n \in 0..MaxSerial :
         /\ broker_orders \in [1..n -> ReconcileEntries]
         /\ pending_orders = [k \in 1..n |-> SellOrder(495000, MaxShares, k)]
    /\ sell = NoneNone
    /\ quantity = 0
    /\ remaining = 0
    /\ orders_needed = 0
    /\ max_volume = 0
    /\ idx = 0
    /\ place_calls = << >>
    /\ cancel_calls = << >>
    /\ notes = {}
    /\ interleaved = FALSE
    /\ config_fault = "none"
    /\ ManagerIdle
    /\ ServicesIdle

ReconcileSpec == ReconcileInit /\ [][UpdatePendingOrders]_vars

\* ------------------------------------------- PortfolioManager, called alone
\* PortfolioManager.__init__ over a file of up to MaxSections sections, each
\* giving a key; two sections may give the same key
ManagerInit ==
    /\ running = FALSE
    /\ pending_orders = << >>
    /\ total_sold = 0
    /\ target_quantity = 0
    /\ last_market_phase = NoPhase
    /\ freeze_notified = FALSE
    /\ pc = "idle"
    /\ TickLocalsInit
    /\ now = PREMARKET_START
    /\ held = 0
    /\ broker_orders = << >>
    /\ interleaved = FALSE
    /\ config_fault = "none"
    /\ \E n \in 1..MaxSections :
         config_file \in [1..n -> {InvalidBrokerKey} \cup 1..MaxKeys]
    /\ watchers = NoWatchers
    /\ objects = << >>
    /\ manager_log = NoCall
    /\ ServicesIdle

ManagerUnchanged ==
    UNCHANGED << watcher_vars, tick_vars, broker_vars, pc, now, interleaved,
                 config_fault, config_file, service_vars >>

\* PortfolioManager.start_all
StartAll ==
    LET st == start_all_from([watchers |-> watchers, objects |-> objects,
                              raised |-> FALSE], config_file, 1)
    IN  /\ Len(st.objects) <= MaxWatchers
        /\ watchers' = st.watchers
        /\ objects' = st.objects
        /\ manager_log' = [op |-> "start_all",
                           outcome |-> IF st.raised THEN "raised" ELSE "done"]
        /\ ManagerUnchanged

\* PortfolioManager.start_one(section_name); section Len(config_file) + 1 is
\* a name the file does not have
StartOne ==
    \E section \in 1..(Len(config_file) + 1) :
      /\ IF section \notin DOMAIN config_file
         THEN /\ manager_log' = [op |-> "start_one", outcome |-> "raised"]
              /\ UNCHANGED << watchers, objects >>
         ELSE IF AlreadyRunning(watchers, objects, config_file[section])
         THEN /\ manager_log' = [op |-> "start_one", outcome |-> "already_running"]
              /\ UNCHANGED << watchers, objects >>
         ELSE LET st == CreateAndStart([watchers |-> watchers, objects |-> objects,
                                        raised |-> FALSE], config_file[section])
              IN  /\ Len(st.objects) <= MaxWatchers
                  /\ watchers' = st.watchers
                  /\ objects' = st.objects
                  /\ manager_log' = [op |-> "start_one",
                                     outcome |-> IF st.raised THEN "raised"
                                                 ELSE "started"]
      /\ ManagerUnchanged

\* PortfolioManager.stop_all
StopAll ==
    /\ objects' = [i \in DOMAIN objects |->
                      IF i \in HeldObjects(watchers)
                      THEN WatcherStopped(objects[i]) ELSE objects[i]]
    /\ watchers' = NoWatchers
    /\ manager_log' = [op |-> "stop_all", outcome |-> "done"]
    /\ ManagerUnchanged

\* PortfolioManager.stop_one(section_name)
StopOne ==
    \E section \in 1..(Len(config_file) + 1) :
      /\ IF section \in DOMAIN config_file /\ config_file[section] \in DOMAIN watchers
         THEN LET key == config_file[section]
              IN  /\ objects' = [objects EXCEPT ![watchers[key]] = WatcherStopped(@)]
                  /\ watchers' = WithoutWatcher(watchers, key)
                  /\ manager_log' = [op |-> "stop_one", outcome |-> "stopped"]
         ELSE /\ manager_log' = [op |-> "stop_one", outcome |-> "absent"]
              /\ UNCHANGED << watchers, objects >>
      /\ ManagerUnchanged

\* a watcher's own tick finds everything sold and clears _running
WatcherCompletes ==
    \E i \in DOMAIN objects :
      /\ objects[i].running
      /\ objects' = [objects EXCEPT ![i] = WatcherStopped(@)]
      /\ UNCHANGED << watchers, manager_log >>
      /\ ManagerUnchanged

ManagerNext ==
    \/ StartAll
    \/ StartOne
    \/ StopAll
    \/ StopOne
    \/ WatcherCompletes

ManagerSpec == ManagerInit /\ [][ManagerNext]_vars

\* --------------------------------- the loop thread and a caller of stop()
\* The caller's thread runs beside the loop thread, so stop() may come at the
\* loop test or between any two steps of a tick; the loop thread is scheduled
\* as in FairSpec, the caller is under no obligation to call stop().
StoppableNext ==
    \/ Start
    \/ Stop
    \/ LoopExit
    \/ TickBegin
    \/ Sleep
    \/ PositionsFail
    \/ GetPositions
    \/ BestLimitsFail
    \/ GetBestLimits
    \/ UpdatePendingOrders
    \/ HandleOrderRepricing
    \/ DetermineSellAction
    \/ PlaceSellOrder

StoppableSpec ==
    /\ RaceInit
    /\ [][StoppableNext]_vars
    /\ WF_vars(LoopExit)
    /\ WF_vars(TickBegin)
    /\ WF_vars(Sleep)
    /\ WF_vars(PositionsFail)
    /\ SF_vars(GetPositions)
    /\ SF_vars(GetBestLimits)
    /\ WF_vars(UpdatePendingOrders)
    /\ WF_vars(HandleOrderRepricing)
    /\ WF_vars(DetermineSellAction)
    /\ WF_vars(PlaceSellOrder)

\* ------------------------------------------------ JobScheduler, running
SecondsPerDay == 24 * 3600

\* should_run_job: a job runs within this many seconds after its time
RunWindow == 120

MaxDays == 2

\* the times of day a job of the configuration is scheduled at: 08:30:00 and
\* 23:59:00
MorningTime == 8 * 3600 + 30 * 60
LateTime == 23 * 3600 + 59 * 60
JobTimes == {MorningTime, LateTime}

\* the instants the clock of the scheduler visits: midnight, and from every
\* scheduled time on the window after it, its end and the second after that
WindowOffsets == {0, 30, 90, RunWindow, RunWindow + 1}

SchedInstants ==
    { d * SecondsPerDay + t + o : d \in 0..(MaxDays - 1), t \in JobTimes, o \in WindowOffsets }
    \cup { d * SecondsPerDay : d \in 0..(MaxDays - 1) }

\* the whitelist of execute_job: the first word of the command
AllowedBinaries == {"python", "locust"}

\* how a spawned command can end: return code 0, another return code, or
\* TimeoutExpired
Outcomes == {"ok", "failed", "timeout"}

\* now.date() and now.time() of an instant
DateOf(t) == t \div SecondsPerDay
TimeOf(t) == t % SecondsPerDay

\* job_key = f"{name}_{date.isoformat()}": the date is the fixed-length tail
JobKey(name, date) == [name |-> name, date |-> date]

\* k.endswith(today)
EndsWith(key, today) == key.date = today

\* should_run_job at instant t
should_run_job(job, t, executed) ==
    IF ~job.enabled THEN FALSE
    ELSE LET today == DateOf(t)
             current_dt == today * SecondsPerDay + TimeOf(t)
             job_today == today * SecondsPerDay + job.time
             job_dt == IF job_today > current_dt THEN job_today - SecondsPerDay
                       ELSE job_today
             delta == current_dt - job_dt
         IN  IF JobKey(job.name, today) \in executed THEN FALSE
             ELSE 0 <= delta /\ delta <= RunWindow

\* a variant of execute_job that records only a command that succeeded
MarkedWhenSucceeded(executed, name, date, outcome) ==
    IF outcome = "ok" THEN executed \cup {JobKey(name, date)} ELSE executed

\* execute_job: self.executed_today[job_key] = now, before the command runs
Marked(executed, name, date, outcome) == executed \cup {JobKey(name, date)}

\* the cleanup of run and of reload_config: only today's records are kept
OnlyToday(executed, t) == { k \in executed : EndsWith(k, DateOf(t)) }

Job(time, enabled, command) == [time |-> time, enabled |-> enabled, command |-> command]

\* the configurations the scheduler is run over: one job in the morning, one
\* just before midnight, both, a disabled job, a command outside the whitelist
Configurations ==
    { << Job(MorningTime, TRUE, "python") >>,
      << Job(LateTime, TRUE, "locust") >>,
      << Job(LateTime, TRUE, "python"), Job(MorningTime, TRUE, "locust") >>,
      << Job(LateTime, FALSE, "python") >>,
      << Job(LateTime, TRUE, "bash") >> }

\* the command of a job has not been spawned
NoSpawn == 0 - 1

\* the state of everything but the scheduler
SchedulerRest ==
    << watcher_vars, tick_vars, broker_vars, pc, now, interleaved, config_fault, manager_vars,
       loop_threads, client_vars >>

\* JobScheduler.__init__ and start, at midnight or in the morning, over a
\* configuration that is enabled
SchedulerInit ==
    /\ running = FALSE
    /\ pending_orders = << >>
    /\ total_sold = 0
    /\ target_quantity = 0
    /\ last_market_phase = NoPhase
    /\ freeze_notified = FALSE
    /\ pc = "idle"
    /\ TickLocalsInit
    /\ now = PREMARKET_START
    /\ held = 0
    /\ broker_orders = << >>
    /\ interleaved = FALSE
    /\ config_fault = "none"
    /\ ManagerIdle
    /\ sched_now \in {0, MorningTime}
    /\ sched_pc = "load"
    /\ jobs \in Configurations
    /\ job_idx = 0
    /\ should_run = NoCheck
    /\ executed_today = {}
    /\ spawned = [i \in 1..Len(jobs) |-> NoSpawn]
    /\ result = "none"
    /\ loop_threads = << >>
    /\ ClientIdle

\* the name of the job at position i of the configuration
JobAt(i) == [name |-> i, time |-> jobs[i].time, enabled |-> jobs[i].enabled,
             command |-> jobs[i].command]

\* run: the configuration is loaded and the for loop begins
SchedLoad ==
    /\ sched_pc = "load"
    /\ job_idx' = 1
    /\ sched_pc' = "check"
    /\ UNCHANGED << sched_now, jobs, should_run, executed_today, spawned, result, SchedulerRest >>

\* where the for loop goes after the job at job_idx
AfterJob == IF job_idx < Len(jobs) THEN "check" ELSE "cleanup"

\* run: if self.should_run_job(job)
SchedCheck ==
    /\ sched_pc = "check"
    /\ LET r == should_run_job(JobAt(job_idx), sched_now, executed_today)
       IN  /\ should_run' = [name |-> job_idx, at |-> sched_now, result |-> r]
           /\ IF r THEN sched_pc' = "execute" /\ UNCHANGED job_idx
              ELSE /\ sched_pc' = AfterJob
                   /\ job_idx' = IF job_idx < Len(jobs) THEN job_idx + 1 ELSE job_idx
    /\ UNCHANGED << sched_now, jobs, executed_today, spawned, result, SchedulerRest >>

\* run: self.execute_job(job) -- a command outside the whitelist is refused
\* before anything is recorded; otherwise the record is made and the command
\* is spawned, whatever its outcome
SchedExecute ==
    /\ sched_pc = "execute"
    /\ LET job == JobAt(job_idx)
       IN  IF job.command \notin AllowedBinaries
           THEN UNCHANGED << executed_today, spawned, result >>
           ELSE \E outcome \in Outcomes :
                  /\ executed_today' = Marked(executed_today, job.name, DateOf(sched_now), outcome)
                  /\ spawned' = [spawned EXCEPT ![job.name] = sched_now]
                  /\ result' = outcome
    /\ sched_pc' = AfterJob
    /\ job_idx' = IF job_idx < Len(jobs) THEN job_idx + 1 ELSE job_idx
    /\ UNCHANGED << sched_now, jobs, should_run, SchedulerRest >>

\* run: the records of earlier days are dropped
SchedCleanup ==
    /\ sched_pc = "cleanup"
    /\ executed_today' = OnlyToday(executed_today, sched_now)
    /\ sched_pc' = "sleep"
    /\ should_run' = NoCheck
    /\ UNCHANGED << sched_now, jobs, job_idx, spawned, result, SchedulerRest >>

\* run: time.sleep(1), then the next iteration
SchedSleep ==
    /\ sched_pc = "sleep"
    /\ sched_pc' = "load"
    /\ UNCHANGED << sched_now, jobs, job_idx, should_run, executed_today, spawned, result, SchedulerRest >>

\* JobScheduler.reload_config, called by the bot
ReloadConfig ==
    /\ sched_pc # "none"
    /\ executed_today' = OnlyToday(executed_today, sched_now)
    /\ UNCHANGED << sched_now, sched_pc, jobs, job_idx, should_run, spawned, result, SchedulerRest >>

\* the instant of the model that follows t
NextInstant(t) ==
    CHOOSE u \in SchedInstants : u > t /\ \A v \in SchedInstants : v > t => u <= v

\* time passes: any time during the sleep of the loop (a spawned command has
\* taken its time by then), and a moment between the answer of should_run_job
\* and the clock reading of execute_job
SchedClock ==
    /\ \E t \in SchedInstants :
         /\ t > sched_now
         /\ \/ sched_pc = "sleep"
            \/ sched_pc = "execute" /\ t = NextInstant(sched_now)
         /\ sched_now' = t
    /\ UNCHANGED << sched_pc, jobs, job_idx, should_run, executed_today, spawned, result, SchedulerRest >>

SchedulerNext ==
    \/ SchedLoad
    \/ SchedCheck
    \/ SchedExecute
    \/ SchedCleanup
    \/ SchedSleep
    \/ ReloadConfig
    \/ SchedClock

SchedulerSpec == SchedulerInit /\ [][SchedulerNext]_vars

\* ------------------------------ the _watch_loop threads of one watcher
MaxThreads == 4

\* the state of everything but _running and the threads
ThreadsRest ==
    << pending_orders, total_sold, target_quantity, last_market_phase, freeze_notified,
       tick_vars, broker_vars, pc, now, interleaved, config_fault, manager_vars, scheduler_vars,
       client_vars >>

\* PortfolioWatcher.__init__: not running, no thread
ThreadsInit ==
    /\ running = FALSE
    /\ pending_orders = << >>
    /\ total_sold = 0
    /\ target_quantity = 0
    /\ last_market_phase = NoPhase
    /\ freeze_notified = FALSE
    /\ pc = "idle"
    /\ TickLocalsInit
    /\ now = PREMARKET_START
    /\ held = 0
    /\ broker_orders = << >>
    /\ interleaved = TRUE
    /\ config_fault = "none"
    /\ ManagerIdle
    /\ SchedulerIdle
    /\ ClientIdle
    /\ loop_threads = << >>

\* start(): returns when _running is set, else sets it and starts a new
\* thread on _watch_loop; the Thread object of an earlier start is overwritten
ThreadStart ==
    /\ ~running
    /\ Len(loop_threads) < MaxThreads
    /\ running' = TRUE
    /\ loop_threads' = Append(loop_threads, "loop")
    /\ UNCHANGED ThreadsRest

\* where self._thread.join(timeout=5) can leave a thread that stood at st
\* when _running was cleared: ended, or, on the timeout, still in the tick or
\* in the sleep that was under way (the loop test itself takes no time)
JoinOutcomes(st) ==
    CASE st = "tick" -> {"tick", "sleep", "exited"}
      [] st = "sleep" -> {"sleep", "exited"}
      [] OTHER -> {"exited"}

\* stop(): clears _running and joins self._thread, the thread of the last
\* start, for at most 5 seconds
ThreadStop ==
    /\ loop_threads # << >>
    /\ running' = FALSE
    /\ \E st \in JoinOutcomes(loop_threads[Len(loop_threads)]) :
         loop_threads' = [loop_threads EXCEPT ![Len(loop_threads)] = st]
    /\ UNCHANGED ThreadsRest

\* _watch_loop: while self._running
ThreadLoopTest ==
    \E i \in 1..Len(loop_threads) :
      /\ loop_threads[i] = "loop"
      /\ loop_threads' = [loop_threads EXCEPT ![i] = IF running THEN "tick" ELSE "exited"]
      /\ UNCHANGED << running, ThreadsRest >>

\* _watch_loop: _check_and_act returns or raises; the tick that finds all
\* shares sold clears _running
ThreadTickEnds ==
    \E i \in 1..Len(loop_threads) :
      /\ loop_threads[i] = "tick"
      /\ loop_threads' = [loop_threads EXCEPT ![i] = "sleep"]
      /\ running' \in {running, FALSE}
      /\ UNCHANGED ThreadsRest

\* _watch_loop: time.sleep(check_interval) returns
ThreadSleepEnds ==
    \E i \in 1..Len(loop_threads) :
      /\ loop_threads[i] = "sleep"
      /\ loop_threads' = [loop_threads EXCEPT ![i] = "loop"]
      /\ UNCHANGED << running, ThreadsRest >>

ThreadsNext ==
    \/ ThreadStart
    \/ ThreadStop
    \/ ThreadLoopTest
    \/ ThreadTickEnds
    \/ ThreadSleepEnds

ThreadsSpec == ThreadsInit /\ [][ThreadsNext]_vars

\* ------------------------------------- EphoenixAPIClient.authenticate
\* timedelta(hours=2)
TokenLifetime == 2 * 3600

MaxLogins == 2
MaxHalfHours == 6

\* the instants the clock of the client visits: every half hour
AuthInstants == { k * 30 * 60 : k \in 0..MaxHalfHours }

\* datetime.isoformat and datetime.fromisoformat: the date and the time of day
isoformat(t) == [date |-> t \div SecondsPerDay, time |-> t % SecondsPerDay]
fromisoformat(str) == str.date * SecondsPerDay + str.time

\* TradingCache.save_token: the CachedToken written to the file
CachedToken(tok, t) ==
    [token |-> tok, created_at |-> isoformat(t), expires_at |-> isoformat(t + TokenLifetime)]

\* CachedToken.is_valid
is_valid(cached, t) == t < fromisoformat(cached.expires_at)

\* TradingCache.get_token: the token of the file if there is one and it is valid
get_token(file, t) ==
    IF file = NoFile THEN NoToken
    ELSE IF is_valid(file, t) THEN file.token ELSE NoToken

\* _load_token: self.token_expiry = datetime.now() + timedelta(hours=2)
LoadedExpiry(file, t) == t + TokenLifetime

\* the state of everything but the API client
ClientRest ==
    << watcher_vars, tick_vars, broker_vars, pc, now, interleaved, config_fault, manager_vars,
       scheduler_vars, loop_threads >>

\* EphoenixAPIClient.__init__ over an empty cache directory
ClientInit ==
    /\ running = FALSE
    /\ pending_orders = << >>
    /\ total_sold = 0
    /\ target_quantity = 0
    /\ last_market_phase = NoPhase
    /\ freeze_notified = FALSE
    /\ pc = "idle"
    /\ TickLocalsInit
    /\ now = PREMARKET_START
    /\ held = 0
    /\ broker_orders = << >>
    /\ interleaved = FALSE
    /\ config_fault = "none"
    /\ ManagerIdle
    /\ SchedulerIdle
    /\ loop_threads = << >>
    /\ ClientIdle

\* authenticate returns self.token: it is set and datetime.now() < token_expiry
AuthFromMemory ==
    /\ token # NoToken
    /\ token_expiry # NoExpiry
    /\ auth_now < token_expiry
    /\ returned' = [token |-> token, at |-> auth_now, from |-> "memory"]
    /\ UNCHANGED << auth_now, cache_file, token, token_expiry, issued, ClientRest >>

\* authenticate returns the token _load_token found valid in the cache
AuthFromCache ==
    /\ ~(token # NoToken /\ token_expiry # NoExpiry /\ auth_now < token_expiry)
    /\ get_token(cache_file, auth_now) # NoToken
    /\ token' = get_token(cache_file, auth_now)
    /\ token_expiry' = LoadedExpiry(cache_file, auth_now)
    /\ returned' = [token |-> token', at |-> auth_now, from |-> "cache"]
    /\ UNCHANGED << auth_now, cache_file, issued, ClientRest >>

\* authenticate logs in: a login attempt succeeds and _save_token writes the
\* token to the cache (a write that fails is only logged) and to the client
AuthLogin ==
    /\ ~(token # NoToken /\ token_expiry # NoExpiry /\ auth_now < token_expiry)
    /\ get_token(cache_file, auth_now) = NoToken
    /\ Len(issued) < MaxLogins
    /\ LET tok == Len(issued) + 1
       IN  /\ \E written \in BOOLEAN :
                cache_file' = IF written THEN CachedToken(tok, auth_now) ELSE cache_file
           /\ token' = tok
           /\ token_expiry' = auth_now + TokenLifetime
           /\ issued' = Append(issued, auth_now + TokenLifetime)
           /\ returned' = [token |-> tok, at |-> auth_now, from |-> "login"]
    /\ UNCHANGED << auth_now, ClientRest >>

\* authenticate raises after max_retries failed login attempts
AuthFails ==
    /\ ~(token # NoToken /\ token_expiry # NoExpiry /\ auth_now < token_expiry)
    /\ get_token(cache_file, auth_now) = NoToken
    /\ returned' = [token |-> NoToken, at |-> auth_now, from |-> "raised"]
    /\ UNCHANGED << auth_now, cache_file, token, token_expiry, issued, ClientRest >>

\* a new EphoenixAPIClient of the same account over the same cache directory
\* (another watcher of the account, or the process started again)
NewClient ==
    /\ token' = NoToken
    /\ token_expiry' = NoExpiry
    /\ returned' = NoReturn
    /\ UNCHANGED << auth_now, cache_file, issued, ClientRest >>

\* time passes
AuthClock ==
    /\ \E t \in AuthInstants : t > auth_now /\ auth_now' = t
    /\ UNCHANGED << cache_file, token, token_expiry, issued, returned, ClientRest >>

ClientNext ==
    \/ AuthFromMemory
    \/ AuthFromCache
    \/ AuthLogin
    \/ AuthFails
    \/ NewClient
    \/ AuthClock

ClientSpec == ClientInit /\ [][ClientNext]_vars

\* ------------------------------------- _determine_sell_action, called alone
MaxPrice == 550000
MinPrice == 450000

DecideRows ==
    { Row(1, bv, bp, sv, sp) :
        bv \in {0, 500000, 20000000, 30000000, 40000000}, bp \in {0, 499000},
        sv \in {0, 1000, 500000000}, sp \in {MinPrice, 500000, MaxPrice} }

\* one-row books, the empty book, and books of two rows that the broker sends
\* in either order
DecideBooks ==
    { Raw(cup, MaxPrice, MinPrice, << r >>) : cup \in {452000, 500000}, r \in DecideRows }
    \cup { Raw(500000, MaxPrice, MinPrice, << >>) }
    \cup { Raw(500000, MaxPrice, MinPrice,
               << Row(a, 20000000, 499000, 1000, 501000),
                  Row(3 - a, 40000000, 498000, 2000, 502000) >>) : a \in {1, 2} }

\* the watcher just before _determine_sell_action(market, phase), holding one
\* share, for every phase and every book
DecideInit ==
    /\ running = TRUE
    /\ pending_orders = << >>
    /\ total_sold = 0
    /\ target_quantity = 1
    /\ freeze_notified = FALSE
    /\ pc = "decide"
    /\ now \in TimePoints
    /\ phase = get_market_phase(now)
    /\ last_market_phase = phase
    /\ position_quantity = 1
    /\ market \in { MarketCondition(raw) : raw \in DecideBooks }
    /\ sell = NoneNone
    /\ quantity = 0
    /\ remaining = 0
    /\ orders_needed = 0
    /\ max_volume = 0
    /\ idx = 0
    /\ place_calls = << >>
    /\ cancel_calls = << >>
    /\ notes = {}
    /\ held = 1
    /\ broker_orders = << >>
    /\ interleaved = FALSE
    /\ config_fault = "none"
    /\ ManagerIdle
    /\ ServicesIdle

DecideSpec == DecideInit /\ [][DetermineSellAction]_vars

\* ------------------------------------------- _execute_sell, called alone
MaxQuantity == 5

\* the watcher just before a decision to sell q shares in an open market
SplitInit ==
    /\ running = TRUE
    /\ pending_orders = << >>
    /\ total_sold = 0
    /\ freeze_notified = FALSE
    /\ pc = "decide"
    /\ now = TRADING_START
    /\ phase = TRADING
    /\ last_market_phase = TRADING
    /\ \E q \in 1..MaxQuantity :
         /\ position_quantity = q
         /\ target_quantity = q
         /\ held = q
    /\ market \in { MarketCondition(raw) : raw \in TickBooks }
    /\ ~market.is_queued
    /\ sell = NoneNone
    /\ quantity = 0
    /\ remaining = 0
    /\ orders_needed = 0
    /\ max_volume = 0
    /\ idx = 0
    /\ place_calls = << >>
    /\ cancel_calls = << >>
    /\ notes = {}
    /\ broker_orders = << >>
    /\ interleaved = FALSE
    /\ config_fault = "none"
    /\ ManagerIdle
    /\ ServicesIdle

SplitNext == DetermineSellAction \/ PlaceSellOrder

SplitSpec == SplitInit /\ [][SplitNext]_vars

\* ------------------------------------- _handle_order_repricing, called alone
\* an order as the broker lists it: untouched, or with one share executed
RepriceEntries ==
    { [volume |-> MaxShares, executedVolume |-> 0, orderState |-> ADDED, open |-> TRUE],
      [volume |-> MaxShares, executedVolume |-> 1, orderState |-> PARTIAL_EXECUTED,
       open |-> TRUE] }

\* the order of the ledger that tracks the broker's entry with this serial
\* number, as _execute_sell created it and _update_pending_orders updated it
TrackedOrder(serial, price, entry) ==
    WithStatus(SellOrder(price, entry.volume, serial),
               [found |-> TRUE, orderState |-> entry.orderState,
                executedVolume |-> entry.executedVolume])

\* the watcher just before _handle_order_repricing(market, phase), for every
\* time of day, every book and every ledger of up to MaxSerial orders
RepriceInit ==
    /\ running = TRUE
    /\ total_sold = 0
    /\ target_quantity = MaxShares
    /\ freeze_notified = FALSE
    /\ pc = "reprice"
    /\ now \in TimePoints
    /\ phase \in {PREMARKET, TRADING}
    /\ last_market_phase = phase
    /\ position_quantity = MaxShares
    /\ held = MaxShares
    /\ market \in { MarketCondition(raw) : raw \in TickBooks }
    /\ \E n \in 0..MaxSerial :
         /\ broker_orders \in [1..n -> RepriceEntries]
         /\ \E prices \in [1..n -> {450000, 495000}] :
              pending_orders = [k \in 1..n |->
                                  TrackedOrder(k, prices[k], broker_orders[k])]
    /\ sell = NoneNone
    /\ quantity = 0
    /\ remaining = 0
    /\ orders_needed = 0
    /\ max_volume = 0
    /\ idx = 0
    /\ place_calls = << >>
    /\ cancel_calls = << >>
    /\ notes = {}
    /\ interleaved = FALSE
    /\ config_fault = "none"
    /\ ManagerIdle
    /\ ServicesIdle

RepriceSpec == RepriceInit /\ [][HandleOrderRepricing]_vars

\* =================================================== properties: the tick
\* C1: in a tick whose sampled phase is ORDER_FREEZE the watcher issues no
\* place-order call and no cancel-order call: the tick never reaches the
\* repricing, the decision or the order submission.
C1_FreezeTickIssuesNoOrderCall ==
    phase = ORDER_FREEZE =>
        /\ place_calls = << >>
        /\ cancel_calls = << >>
        /\ pc \notin {"reprice", "decide", "place"}

\* a freeze tick has run to its end with shares held, tracked orders
\* reconciled and an open market that would otherwise be sold into
C1_FreezeTickWitness ==
    /\ phase = ORDER_FREEZE
    /\ pc = "sleep"
    /\ "error" \notin notes
    /\ position_quantity > 0
    /\ pending_orders # << >>
    /\ ~market.is_queued

\* C2: the remaining volume of the tracked orders plus _total_sold never
\* exceeds _target_quantity.
C2_PendingPlusSoldWithinTarget ==
    get_pending_volume(pending_orders) + total_sold <= target_quantity

\* C3: a reconciliation in which the broker reports, for every tracked order,
\* the state and the executed volume that the previous reconciliation
\* recorded in the order leaves _total_sold as the previous one left it.
C3_ReconcileTwiceSameTotal ==
    [][ (pc = "update" /\ pc' # "update" /\ pending_orders' = pending_orders)
            => total_sold' = total_sold ]_vars

\* C4: what the reconciliations credit to _total_sold for one order never
\* exceeds the volume the order was submitted with; with one order submitted
\* so far, _total_sold is the credit of that order.
C4_CreditWithinSubmittedVolume ==
    Len(broker_orders) = 1 => total_sold <= broker_orders[1].volume

\* every order ever submitted is fully executed, nothing is held any more,
\* and the market is not closed
AllExecutedNothingHeld ==
    /\ pc # "idle"
    /\ held = 0
    /\ broker_orders # << >>
    /\ \A s \in 1..Len(broker_orders) :
         /\ broker_orders[s].orderState = EXECUTED
         /\ broker_orders[s].executedVolume = broker_orders[s].volume
    /\ get_market_phase(now) # CLOSED

\* the watcher has seen that everything is sold: the "all sold" notification
\* and is_running false
Completed ==
    /\ ~running
    /\ total_sold >= target_quantity
    /\ "all_sold" \in notes

\* C5: once every order is fully executed and the held quantity is zero, and
\* for as long as the loop keeps ticking in a phase that is not CLOSED, the
\* watcher eventually completes.
C5_EventuallyCompleted == (<>[]AllExecutedNothingHeld) => <>Completed

\* =========================================== properties: order submission
\* the least n with n * m >= q
CeilDiv(q, m) == CHOOSE n \in 0..q : n * m >= q /\ (n - 1) * m < q

RECURSIVE SumVolumes(_)
SumVolumes(calls) ==
    IF calls = << >> THEN 0 ELSE Head(calls).volume + SumVolumes(Tail(calls))

\* _execute_sell has returned from its loop
ExecuteSellDone == pc = "sleep" /\ "selling" \in notes

\* C6: _execute_sell(price, q) with a per-order maximum m issues exactly
\* ceil(q / m) place-order calls, one after another, each for a volume
\* between 1 and m, and the volumes add up to q.
C6_SplitIntoCeilOrders ==
    /\ pc = "place" =>
         /\ Len(place_calls) = idx
         /\ SumVolumes(place_calls) + remaining = quantity
    /\ ExecuteSellDone =>
         /\ Len(place_calls) = CeilDiv(quantity, max_volume)
         /\ \A k \in 1..Len(place_calls) :
              place_calls[k].volume \in 1..max_volume
         /\ SumVolumes(place_calls) = quantity

\* five shares went out as 2 + 2 + 1
C6_UnevenSplitWitness ==
    /\ ExecuteSellDone
    /\ quantity = 5
    /\ max_volume = 2
    /\ Len(place_calls) = 3
    /\ place_calls[3].volume = 1

IsAcked(call) == call.ok

IsNew(order) == order.state = ADDING

\* C7: a place-order call that fails adds nothing to _pending_orders and is
\* not made again in the tick, the split orders after it are still
\* submitted, and every acknowledged call adds one order with the submitted
\* price and volume and the broker's serial number.
C7_FailedPlaceSkippedAckedTracked ==
    pc \in {"place", "sleep"} /\ "selling" \in notes =>
        LET acked == SelectSeq(place_calls, IsAcked)
            added == SelectSeq(pending_orders, IsNew)
        IN  /\ Len(place_calls) = idx
            /\ pc = "sleep" => idx = orders_needed
            /\ Len(added) = Len(acked)
            /\ \A j \in 1..Len(acked) :
                 /\ added[j].serial_number = acked[j].serial
                 /\ added[j].price = acked[j].price
                 /\ added[j].volume = acked[j].volume
            /\ \A j \in 1..Len(pending_orders) :
                 pending_orders[j].serial_number # NoSerial

\* the first of two split orders failed, the second was acknowledged and is
\* the only order tracked
C7_FailThenAckWitness ==
    /\ ExecuteSellDone
    /\ Len(place_calls) = 2
    /\ ~place_calls[1].ok
    /\ place_calls[2].ok
    /\ Len(pending_orders) = 1
    /\ pending_orders[1].serial_number = place_calls[2].serial

\* ================================================ properties: the decision
\* _determine_sell_action has returned
Decided == pc # "decide"

HeavySellVolume == 500000000
WeakBuyVolume == 500000

\* the best sell sits at the session floor, the sell side is heavy and the
\* buy side is weak
SellQueueDump(m) ==
    /\ best_sell_price(m) = m.min_price
    /\ m.total_sell_volume >= HeavySellVolume
    /\ m.total_buy_volume <= WeakBuyVolume

\* C8: with the best sell price at min_price, a heavy sell side and a weak
\* buy side, _determine_sell_action returns min_price with the reason
\* sell_queue_panic, or sell_queue_panic_premarket in PREMARKET, before any
\* other rule is looked at.
C8_SellQueuePanicFirst ==
    Decided /\ phase \in {PREMARKET, TRADING} /\ SellQueueDump(market) =>
        sell = PairResult(market.min_price,
                          IF phase = PREMARKET THEN "sell_queue_panic_premarket"
                          ELSE "sell_queue_panic")

\* C9: for a queued market whose first-row buy volume is below
\* min_buy_volume, _determine_sell_action returns the best buy price with
\* the reason queue_demand_low in TRADING and queue_demand_low_premarket in
\* PREMARKET.
C9_QueueDemandLowSellsAtBestBuy ==
    Decided /\ phase \in {PREMARKET, TRADING} /\ market.is_queued
            /\ first_row_buy_volume(market) < min_buy_volume =>
        sell = PairResult(best_buy_price(market),
                          IF phase = PREMARKET THEN "queue_demand_low_premarket"
                          ELSE "queue_demand_low")

\* the tick has a snapshot of a queued market with enough demand in row 1
QueueDemandHigh ==
    /\ market # NoMarket
    /\ market.is_queued
    /\ first_row_buy_volume(market) >= min_buy_volume

\* C10: for a queued market whose first-row buy volume is at or above
\* min_buy_volume, _determine_sell_action returns (None, None), and the tick
\* submits no order and cancels no order.
C10_QueueDemandHighHolds ==
    QueueDemandHigh =>
        /\ sell = NoneNone
        /\ pc # "place"
        /\ place_calls = << >>
        /\ cancel_calls = << >>

\* a tick of an open phase went through the decision with shares held,
\* orders tracked and a queue holding exactly min_buy_volume in row 1
C10_HoldWitness ==
    /\ QueueDemandHigh
    /\ first_row_buy_volume(market) = min_buy_volume
    /\ phase \in {PREMARKET, TRADING}
    /\ pc = "sleep"
    /\ "error" \notin notes
    /\ position_quantity > 0
    /\ pending_orders # << >>

\* max(last_price * sell_discount, min_price), with the discount as 99/100
DiscountThenFloor(m) ==
    LET discounted == (m.last_price * 99) \div 100
    IN  IF discounted >= m.min_price THEN discounted ELSE m.min_price

C12_NormalReasonByPhase ==
    Decided /\ ~market.is_queued /\ best_sell_price(market) # market.min_price
            /\ phase \in {PREMARKET, TRADING} =>
        sell = PairResult(DiscountThenFloor(market),
                          IF phase = PREMARKET THEN "premarket_normal_urgent"
                          ELSE "normal_market_sell")

\* ============================================ properties: the closed market
\* C13: a tick whose sampled phase is CLOSED ends at once: it asks for no
\* position and no market, reconciles, cancels and submits nothing, and
\* leaves _pending_orders, _total_sold and _target_quantity as they were.
C13_ClosedTickDoesNothing ==
    [][ phase' = CLOSED =>
            /\ pc' = "sleep"
            /\ position_quantity' = 0
            /\ market' = NoMarket
            /\ place_calls' = << >>
            /\ cancel_calls' = << >>
            /\ UNCHANGED << pending_orders, total_sold, target_quantity,
                            broker_orders, running >> ]_vars

\* a tick in a closed market has ended with shares held and orders tracked
C13_ClosedTickWitness ==
    /\ phase = CLOSED
    /\ pc = "sleep"
    /\ held > 0
    /\ pending_orders # << >>
    /\ total_sold < target_quantity

\* ===================================================== properties: repricing
\* last_price * sell_discount + 1, with the discount as 99/100 and prices in
\* hundredths
RepricingBound(m) == (m.last_price * 99) \div 100 + 100

\* the serial numbers of the orders of a ledger priced above the bound
PricedAbove(orders, m) ==
    { orders[k].serial_number :
        k \in { j \in 1..Len(orders) : orders[j].price > RepricingBound(m) } }

\* the serial numbers cancel_order was called with
CancelRequested(calls) == { calls[k].serial : k \in 1..Len(calls) }

\* the serial numbers whose cancel_order call succeeded
CancelSucceeded(calls) ==
    { calls[k].serial : k \in { j \in 1..Len(calls) : calls[j].ok } }

\* C14: in a PREMARKET or TRADING tick with a non-queued market,
\* _handle_order_repricing asks the broker to cancel exactly the tracked
\* orders priced above last_price * sell_discount + 1.
C14_CancelsEveryActiveOrderAboveBound ==
    [][ pc = "reprice" /\ pc' = "decide" /\ phase \in {PREMARKET, TRADING}
            /\ can_modify_orders(now) /\ ~market.is_queued
        => CancelRequested(cancel_calls') = PricedAbove(pending_orders, market) ]_vars

\* C15: _handle_order_repricing makes no cancel_order call when the market
\* is queued, when _pending_orders is empty, or when can_modify_orders() is
\* false.
C15_NoCancelWhenRepricingDoesNotApply ==
    [][ pc = "reprice" /\ ( \/ market.is_queued
                            \/ pending_orders = << >>
                            \/ ~can_modify_orders(now) )
        => /\ cancel_calls' = << >>
           /\ UNCHANGED << pending_orders, broker_orders >> ]_vars

\* _handle_order_repricing has returned without a call while modification is
\* not permitted, on an open market with a registered order above the bound
C15_NotPermittedWitness ==
    /\ pc = "decide"
    /\ ~can_modify_orders(now)
    /\ ~market.is_queued
    /\ \E k \in 1..Len(pending_orders) :
         /\ pending_orders[k].state = ADDED
         /\ pending_orders[k].price > RepricingBound(market)
    /\ cancel_calls = << >>

\* the order of a ledger with the given serial number, as a set (empty when
\* the ledger has none)
OrdersWithSerial(orders, serial) ==
    { orders[k] : k \in { j \in 1..Len(orders) : orders[j].serial_number = serial } }

\* C16: an order whose cancel_order call succeeds leaves _pending_orders and
\* nothing is credited to _total_sold for it; an order whose cancel_order
\* call fails stays in _pending_orders with price, volume and state as they
\* were (so that the next tick looks at it again), as does every order for
\* which no call was made.
C16_CancelledRemovedUncreditedFailedKept ==
    [][ pc = "reprice" /\ pc' = "decide" =>
          LET ok == CancelSucceeded(cancel_calls')
          IN  /\ total_sold' = total_sold
              /\ \A s \in ok : OrdersWithSerial(pending_orders', s) = {}
              /\ \A s \in SerialsOf(pending_orders) \ ok :
                    OrdersWithSerial(pending_orders', s)
                        = OrdersWithSerial(pending_orders, s)
              /\ Len(pending_orders') = Len(pending_orders) - Cardinality(ok) ]_vars

\* one repricing in which one cancel_order call succeeded and another failed:
\* the ledger holds the order of the failed call, still registered
C16_OneCancelledOneFailedWitness ==
    /\ pc = "decide"
    /\ CancelSucceeded(cancel_calls) # {}
    /\ \E s \in CancelRequested(cancel_calls) \ CancelSucceeded(cancel_calls) :
         \E o \in OrdersWithSerial(pending_orders, s) : o.state = ADDED
    /\ CancelSucceeded(cancel_calls) \cap SerialsOf(pending_orders) = {}

\* the loop thread is inside _check_and_act
InTick == pc \in {"positions", "market", "update", "reprice", "decide", "place"}

\* stop() has been called on a started watcher (is_running reads _running)
Stopped == ~running /\ pc \notin {"idle", "raised"}

\* C17: once stop() has been called on a running watcher, is_running stays
\* false, the loop begins no new tick, the call leaves the loop thread where
\* it is, a tick in flight is left only at its end (the sleep), the thread
\* ends only at the loop test, and it does end.
C17_StopEndsLoopAtTickBoundary ==
    /\ [][ Stopped => ~running' ]_vars
    /\ [][ Stopped /\ pc = "loop" => pc' \in {"loop", "exited"} ]_vars
    /\ [][ running /\ ~running' /\ InTick /\ pc # "positions" =>
             pc' = pc /\ UNCHANGED << tick_vars, pending_orders, broker_orders >> ]_vars
    /\ [][ InTick /\ ~InTick' => pc' = "sleep" ]_vars
    /\ [][ Stopped /\ pc' = "exited" => pc \in {"loop", "exited"} ]_vars
    /\ Stopped ~> (pc = "exited")

\* stop() came while _execute_sell was between two orders: one is placed,
\* another is still to be placed
C17_StoppedInFlightWitness ==
    /\ Stopped
    /\ pc = "place"
    /\ Len(place_calls) = 1
    /\ idx < orders_needed

\* C18: a tick that follows another tick sends the phase-change notification
\* exactly when its phase differs from the phase of the previous tick,
\* whatever the new phase is.
C18_NotifiedExactlyOnPhaseChange ==
    [][ pc = "loop" /\ pc' \in {"positions", "sleep"} /\ last_market_phase # NoPhase
        => ("phase_changed" \in notes' <=> phase' # last_market_phase) ]_vars

\* the objects created for a key
ObjectsOfKey(objs, key) == { i \in DOMAIN objs : objs[i].key = key }

\* C19: whatever start_all, start_one, stop_one and stop_all calls were made,
\* the manager holds one watcher per key, of that key, no watcher outside
\* self.watchers is running, so that at most one watcher of a key runs; and
\* no call creates a watcher or starts a thread for a key whose watcher is
\* running.
C19_OneWatcherPerKeyNoDuplicateStart ==
    /\ [](/\ \A k \in DOMAIN watchers : objects[watchers[k]].key = k
          /\ \A i \in DOMAIN objects : objects[i].running => i \in HeldObjects(watchers)
          /\ \A k \in 1..MaxKeys :
               Cardinality({ i \in ObjectsOfKey(objects, k) : objects[i].running }) <= 1)
    /\ [][ \A k \in DOMAIN watchers :
             objects[watchers[k]].running =>
                /\ ObjectsOfKey(objects', k) = ObjectsOfKey(objects, k)
                /\ \A i \in ObjectsOfKey(objects, k) :
                      objects'[i].threads = objects[i].threads ]_vars

\* start_one has just returned on a key whose watcher runs, after an earlier
\* watcher of the key had been stopped and replaced
C19_StartOneOnRunningKeyWitness ==
    /\ manager_log = [op |-> "start_one", outcome |-> "already_running"]
    /\ \E k \in DOMAIN watchers :
         /\ objects[watchers[k]].running
         /\ Cardinality(ObjectsOfKey(objects, k)) = 2

\* C20: a watcher whose configuration is fatally invalid (broker code,
\* instrument or account) is never running.
C20_InvalidConfigNeverRunning == config_fault # "none" => ~running

\* C21: a configuration entry that cannot be created does not keep start_all
\* from creating and starting every other configured entry: once start_all
\* has returned or raised, the manager holds a watcher for the key of every
\* section whose broker code is valid.
C21_StartAllStartsEveryOtherEntry ==
    manager_log.op = "start_all" =>
        \A section \in DOMAIN config_file :
            config_file[section] # InvalidBrokerKey =>
                config_file[section] \in DOMAIN watchers

\* the reconciliation of this step is the one of a loop in which the open
\* orders query raised for some order, and not the one of a loop in which
\* every query answered
OrderStatusFails ==
    /\ pc = "update"
    /\ LET start == [pending |-> << >>, sold |-> total_sold, errors |-> FALSE]
           answered == update_pending_orders(pending_orders, broker_orders, {}, start)
       IN  \E failed \in SUBSET SerialsOf(pending_orders) :
             LET r == update_pending_orders(pending_orders, broker_orders, failed, start)
             IN  /\ failed # {}
                 /\ r # answered
                 /\ pending_orders' = r.pending
                 /\ total_sold' = r.sold

\* C22: when a broker query of a tick fails (positions, best limits, or the
\* open orders behind get_order_status), the tick ends there, with
\* _pending_orders and _total_sold as they were.
C22_FailedQueryEndsTickUnchanged ==
    [][ PositionsFail \/ BestLimitsFail \/ OrderStatusFails
        => pc' = "sleep" /\ UNCHANGED << pending_orders, total_sold >> ]_vars

\* the states the specification calls transient: every OrderState but
\* EXECUTED, CANCELED, ERROR and DEPRECATED
NonTerminalStates ==
    {ADDING, ADDED, PARTIAL_EXECUTED, MODIFIED, CANCELING, MODIFYING, SLE_ERROR}

\* the serial numbers of the tracked orders the broker reports in one of the
\* given states
ReportedIn(states) ==
    { pending_orders[k].serial_number : k \in
        { j \in 1..Len(pending_orders) :
            /\ broker_orders[pending_orders[j].serial_number].open
            /\ broker_orders[pending_orders[j].serial_number].orderState \in states } }

\* the serial numbers of the tracked orders that are not among the open orders
NotReported ==
    { pending_orders[k].serial_number : k \in
        { j \in 1..Len(pending_orders) :
            ~broker_orders[pending_orders[j].serial_number].open } }

\* a step of _update_pending_orders in which every status query answered
ReconcileAnswered == pc = "update" /\ pc' # "update" /\ ~OrderStatusFails

\* C23: after _update_pending_orders every tracked order that the broker
\* reports in a non-terminal state is still in _pending_orders; only orders in
\* a terminal state or not reported are removed.
C23_NonTerminalOrdersStayTracked ==
    [][ ReconcileAnswered =>
          SerialsOf(pending_orders') = ReportedIn(NonTerminalStates) ]_vars

\* the tracked orders without those of the given serial numbers
LedgerWithout(serials) ==
    SelectSeq(pending_orders, LAMBDA o : o.serial_number \notin serials)

\* the tracked orders of the given serial numbers
LedgerOf(serials) ==
    SelectSeq(pending_orders, LAMBDA o : o.serial_number \in serials)

\* what _update_pending_orders makes of a ledger when every query answers
ReconcileOf(orders) ==
    update_pending_orders(orders, broker_orders, {},
                          [pending |-> << >>, sold |-> total_sold, errors |-> FALSE])

\* C24: _update_pending_orders removes every tracked order that is not among
\* the broker's open orders and adds its full submitted volume to
\* _total_sold; the other tracked orders fare as they would without it.
C24_UnreportedOrderCreditedInFull ==
    [][ ReconcileAnswered =>
          LET rest == ReconcileOf(LedgerWithout(NotReported))
          IN  /\ NotReported \cap SerialsOf(pending_orders') = {}
              /\ pending_orders' = rest.pending
              /\ total_sold' = rest.sold + SumVolumes(LedgerOf(NotReported)) ]_vars

\* the first of two orders has left the open orders and its volume is
\* credited; the second, still registered, is the only one tracked
C24_GoneOrderCreditedWitness ==
    /\ pc \in {"reprice", "sleep"}
    /\ Len(broker_orders) = 2
    /\ ~broker_orders[1].open
    /\ broker_orders[2].open /\ broker_orders[2].orderState = ADDED
    /\ total_sold = MaxShares
    /\ SerialsOf(pending_orders) = {2}

\* C25: an order the broker reports as CANCELED or ERROR leaves
\* _pending_orders and adds nothing to _total_sold: the ledger and the total
\* after _update_pending_orders are those of the ledger without it.
C25_CancelledOrErrorRemovedUncredited ==
    [][ ReconcileAnswered =>
          LET rest == ReconcileOf(LedgerWithout(ReportedIn({CANCELED, ERROR})))
          IN  /\ ReportedIn({CANCELED, ERROR}) \cap SerialsOf(pending_orders') = {}
              /\ pending_orders' = rest.pending
              /\ total_sold' = rest.sold ]_vars

\* a cancelled order and an order in error have been reconciled: nothing is
\* tracked, nothing is credited
C25_CancelledAndErrorWitness ==
    /\ pc \in {"reprice", "sleep"}
    /\ Len(broker_orders) = 2
    /\ broker_orders[1].open /\ broker_orders[1].orderState = CANCELED
    /\ broker_orders[2].open /\ broker_orders[2].orderState = ERROR
    /\ "order_error" \in notes
    /\ total_sold = 0
    /\ pending_orders = << >>

\* C26: _total_sold never decreases, whatever the ticks, reconciliations,
\* repricings, cancellations, failures and stop() calls.
C26_TotalSoldNeverDecreases == [][ total_sold' >= total_sold ]_vars

\* a tick has credited an executed order and cancelled another in its
\* repricing
C26_CreditedThenCancelledWitness ==
    /\ pc = "decide"
    /\ total_sold > 0
    /\ CancelSucceeded(cancel_calls) # {}

\* a time of day in seconds
Clock(h, m, sec) == h * 3600 + m * 60 + sec

\* C27: get_market_phase has a value at every second of the day: PREMARKET
\* from 08:45:00, ORDER_FREEZE from 08:55:00, TRADING from 09:02:00 up to and
\* including 12:30:00, CLOSED before and after; so as the day advances the
\* value changes only along CLOSED, PREMARKET, ORDER_FREEZE, TRADING, CLOSED,
\* and CLOSED after trading is final.
C27_PhasesInOrderThroughTheDay ==
    /\ [](phase = IF now < Clock(8, 45, 0) THEN CLOSED
                  ELSE IF now < Clock(8, 55, 0) THEN PREMARKET
                  ELSE IF now < Clock(9, 2, 0) THEN ORDER_FREEZE
                  ELSE IF now <= Clock(12, 30, 0) THEN TRADING
                  ELSE CLOSED)
    /\ [][ phase' # phase =>
             << phase, phase' >> \in { << CLOSED, PREMARKET >>,
                                       << PREMARKET, ORDER_FREEZE >>,
                                       << ORDER_FREEZE, TRADING >>,
                                       << TRADING, CLOSED >> } ]_vars
    /\ [][ phase = CLOSED /\ last_market_phase = TRADING => phase' = CLOSED ]_vars
    /\ [][ phase = CLOSED /\ now > Clock(12, 30, 0) => phase' = CLOSED ]_vars

\* the second after 12:30:00: the phase has just gone from TRADING to CLOSED
C27_ClosedAfterTradingWitness ==
    /\ now = Clock(12, 30, 1)
    /\ phase = CLOSED
    /\ last_market_phase = TRADING

WeakMarketVolume == 1000000

\* the condition the claim gives for a sell queue: a first row whose sell
\* price is min_price, and a sell side that outweighs the buy side heavily or
\* a total buy volume under the weak-market threshold
SellQueueAtFloor(m) ==
    /\ m.best_limits # << >>
    /\ best_sell_price(m) = m.min_price
    /\ \/ m.total_sell_volume >= HeavySellVolume /\ m.total_sell_volume > m.total_buy_volume
       \/ m.total_buy_volume < WeakMarketVolume

\* C28: market.is_sell_queue is true exactly when the first-row sell price is
\* min_price with a heavy sell side or a weak buy side, and false for an
\* empty book or a best sell price above min_price.
C28_IsSellQueueAtFloorWithWeakDemand ==
    getattr(market, "is_sell_queue") =
        [raised |-> FALSE, value |-> SellQueueAtFloor(market)]

\* C29: in the CLOSED phase _determine_sell_action returns no action,
\* whatever the market condition: it never returns a (price, reason) pair.
C29_ClosedPhaseNoAction ==
    Decided /\ phase = CLOSED => sell.ret # "pair"

\* C30: for every market condition and phase _determine_sell_action returns
\* a pair: a price above 0 with a reason code, or (None, None); also for a
\* queued market with low first-row buy volume and no positive best buy price.
C30_AlwaysReturnsAPair ==
    Decided =>
        \/ sell = NoneNone
        \/ sell.ret = "pair" /\ sell.price > 0 /\ sell.reason # "None"

C32_TargetFollowsTopUp ==
    [][ pc = "positions" /\ pc' = "market" /\ position_quantity' > target_quantity
        => target_quantity' = position_quantity' ]_vars

\* the tick ended in the except branch of _watch_loop
TickFailed == pc = "sleep" /\ "error" \in notes

\* C33: an exception raised inside a tick never ends the watch loop: the step
\* that raises sends the error notification and leaves the thread at the sleep
\* of the loop, and from there, unless the watcher is stopped, the loop begins
\* the next tick (the tick bound of the model, SoldCap, permitting).
C33_FailedTickIsRetried ==
    /\ [][ "error" \in notes' /\ "error" \notin notes => InTick /\ pc' = "sleep" ]_vars
    /\ [][ TickFailed => pc' \in {"sleep", "loop"} ]_vars
    /\ (TickFailed /\ total_sold <= SoldCap)
           ~> (~running \/ (pc = "positions" /\ "error" \notin notes) \/ (pc = "sleep" /\ ~TickFailed))

\* the tick failed after an earlier tick had placed an order
C33_FailedAfterPlacingWitness ==
    /\ TickFailed
    /\ running
    /\ pending_orders # << >>
    /\ place_calls = << >>

\* execute_job gets as far as spawning the command of the job
Spawns == SchedExecute /\ JobAt(job_idx).command \in AllowedBinaries

\* C34: a job is spawned at most once per calendar day, whatever the outcome
\* of the command, and while the record of a job for today exists
\* should_run_job answers no for it.
C34_AtMostOncePerCalendarDay ==
    /\ [][ Spawns => \/ spawned[job_idx] = NoSpawn
                     \/ DateOf(spawned[job_idx]) # DateOf(sched_now) ]_vars
    /\ [](\A i \in 1..Len(jobs) :
            JobKey(i, DateOf(sched_now)) \in executed_today
                => ~should_run_job(JobAt(i), sched_now, executed_today))

\* the command timed out, and a later check inside the same window, on the
\* same day, has answered no
C34_NoRetryAfterTimeoutWitness ==
    /\ result = "timeout"
    /\ should_run.name # 0
    /\ should_run.at = spawned[should_run.name] + 30
    /\ ~should_run.result
    /\ DateOf(should_run.at) = DateOf(spawned[should_run.name])
    /\ TimeOf(spawned[should_run.name]) = JobAt(should_run.name).time

\* the scheduled time of a job that an instant follows most closely
OccurrenceBefore(job, t) ==
    LET today == DateOf(t) * SecondsPerDay + job.time
    IN  IF today > t THEN today - SecondsPerDay ELSE today

\* C39: a scheduled occurrence of a job leads to at most one execution: no
\* command is spawned inside the 120-second window of a scheduled time when the
\* job was already spawned after that same scheduled time, midnight or not in
\* between.
C39_OneExecutionPerOccurrence ==
    [][ Spawns /\ spawned[job_idx] # NoSpawn
        => ~ /\ OccurrenceBefore(JobAt(job_idx), spawned[job_idx])
                    = OccurrenceBefore(JobAt(job_idx), sched_now)
             /\ sched_now - OccurrenceBefore(JobAt(job_idx), sched_now) <= RunWindow ]_vars

\* C35: with the clock moving during a tick, no place_sell_order call and no
\* cancel_order call is issued at an instant of the order freeze, also in a
\* tick that sampled PREMARKET before 08:55:00.
C35_NoOrderCallDuringFreeze ==
    [][ \/ Len(place_calls') > Len(place_calls)
        \/ Len(cancel_calls') > Len(cancel_calls)
        => get_market_phase(now) # ORDER_FREEZE ]_vars

\* C36: over a snapshot that is not queued, _handle_order_repricing sends no
\* order to cancel_order whose price is the price _determine_sell_action decides
\* for that same snapshot (the order a tick over the unchanged snapshot has
\* submitted), also when that price is the floor min_price: submitted orders
\* are not cancelled and resubmitted tick after tick.
C36_DecidedPriceNotCancelled ==
    [][ pc = "reprice" /\ ~market.is_queued
        => LET action == determine_sell_action(market, phase, min_buy_volume)
           IN  \A i \in 1..Len(pending_orders) :
                 action.ret = "pair" /\ pending_orders[i].price = action.price
                     => pending_orders[i].serial_number \notin CancelRequested(cancel_calls') ]_vars

\* the threads that are inside _check_and_act
TickingThreads == { i \in 1..Len(loop_threads) : loop_threads[i] = "tick" }

\* C37: whatever start() and stop() calls come while the loop runs, stop()
\* returning on its join timeout and a new start() included, at most one
\* _watch_loop thread of the watcher is executing a tick.
C37_AtMostOneLoopThread == Cardinality(TickingThreads) <= 1

\* the volume still to execute of the orders open at the broker
RECURSIVE OpenUnexecuted(_)
OpenUnexecuted(orders_at_broker) ==
    IF orders_at_broker = << >> THEN 0
    ELSE LET entry == Head(orders_at_broker)
         IN  (IF entry.open /\ entry.orderState \notin {EXECUTED, CANCELED, ERROR}
              THEN entry.volume - entry.executedVolume ELSE 0)
             + OpenUnexecuted(Tail(orders_at_broker))

\* C38: with the broker executing orders during the tick, the unexecuted
\* volume of the watcher's open orders never exceeds the quantity held, and the
\* quantity a tick sets out to submit is no more than the quantity held less
\* that unexecuted volume.
C38_OpenVolumeWithinHoldings ==
    /\ [](OpenUnexecuted(broker_orders) <= held)
    /\ [][ pc = "decide" /\ pc' = "place"
           => quantity' + OpenUnexecuted(broker_orders) <= held ]_vars

\* C40: authenticate never returns a token later than the expiry recorded for
\* that token when it was saved, two hours after the login, also when the
\* token was loaded from the cache shortly before that expiry.
C40_TokenNotReturnedAfterExpiry ==
    returned.token # NoToken => returned.at <= issued[returned.token]

====
